---- MODULE Spec2Model ----
(***************************************************************************)
(* Model of simulation.py: a discrete-event simulation of a three-station  *)
(* FIFO service network (Fingerprint "F", Case Review "C", Interview "W"). *)
(*                                                                         *)
(* Time is an integer number of units of ln(2)/Scale hours.  A uniform     *)
(* draw is u = 2^-n for a draw index n >= 1, so that -ln(u) = n * ln(2);   *)
(* a standard exponential draw is x * ln(2) for a draw index x >= 1.       *)
(* Probabilities are counted in units of 1/ProbDen.                        *)
(***************************************************************************)
EXTENDS Integers, Sequences, FiniteSets, TLC

VARIABLES
    par,                      \* the arguments of main: K, lam, muf, muc, muw, p, q, r, T
    rng,                      \* the random source: the draw indices it can return
    pc,                       \* position in main
    k,                        \* replications completed (the for _ in range(K) counter)
    Times,                    \* Times["c"], Times["r"]
    t_prev,                   \* t_prev
    t_poisson,                \* poisson_process's local t
    applicant_arrival_times,  \* poisson_process's times, then applicant_arrival_times
    idx,                      \* position of the for t loop in applicant_arrival_times
    time_till_applicant,      \* time_till_applicant
    Servers,                  \* Servers["F"], Servers["C"], Servers["W"]
    clock,                    \* history: simulation clock of the replication
    enqueued,                 \* history: applicants enqueued in this replication
    log,                      \* history: the samples recorded in this replication
    snap,                     \* history: the heads of the stations at the start of the slot
    waited                    \* history: the applicants that joined a non-empty queue

vars == <<par, rng, pc, k, Times, t_prev, t_poisson, applicant_arrival_times, idx,
          time_till_applicant, Servers, clock, enqueued, log, snap, waited>>

----------------------------------------------------------------------------
(* Bounds of the model *)

\* the largest draw index of the random source (uniform 2^-n, exponential x*ln 2)
MaxDraw == 2
\* the largest number of replications K
MaxK == 2
\* the largest number of arrivals generated when poisson_process does not end
MaxArrivals == 3

(* Program constants *)

\* float("inf")
Inf == 1000000
\* the rates of the __main__ block, per hour
LamMain == 8
MufMain == 6
MucMain == 5
MuwMain == 4

\* the time unit is ln(2)/Scale hours: every rate above divides Scale
Scale == 120
\* probabilities are in units of 1/ProbDen
ProbDen == 4
Half == ProbDen \div 2
One == ProbDen
\* the horizons T of the replications of Spec, in time units
Horizon == 40
ShortHorizon == 20
\* T = 1 hour in time units, rounded up: 1/ln(2) = 1.4427, Scale/ln(2) = 173.1...,
\* and t < 173.1... iff t < 174 for the integer instants of the model
HourUnits == (Scale * 14427) \div 10000 + 1

Names == <<"F", "C", "W">>

----------------------------------------------------------------------------
(* Arithmetic with float("inf") *)

Plus(a, b) == IF a = Inf \/ b = Inf THEN Inf ELSE a + b
Minus(a, b) == IF a = Inf THEN Inf ELSE a - b

RECURSIVE Pow2(_)
Pow2(n) == IF n = 0 THEN 1 ELSE 2 * Pow2(n - 1)

\* uniform() < prob, for the draw u = 2^-n and the probability prob/ProbDen
UniformLess(n, prob) == ProbDen < prob * Pow2(n)

\* -np.log(u) / lam for u = 2^-n: n*ln(2)/lam hours; numpy returns inf for lam = 0
InterArrivalNoDivision(n, lam) == n * Scale
InterArrival(n, lam) ==
    IF lam = 0 THEN Inf
    ELSE IF lam > 0 THEN (n * Scale) \div lam
    ELSE 0 - ((n * Scale) \div (0 - lam))

\* exponential(1 / mu) for the standard draw x*ln(2): x*ln(2)/mu hours
exponential(x, mu) == (x * Scale) \div mu
\* 1 / mu raises ZeroDivisionError for mu = 0, exponential raises ValueError for scale < 0
ExponentialRaises(mu) == mu <= 0

----------------------------------------------------------------------------
(* process_application *)

Rate(name, P) == IF name = "F" THEN P.muf ELSE IF name = "C" THEN P.muc ELSE P.muw

\* the decision tree: the stations visited, and the rejection flag
PlanCopyPaste(u, P) ==
    IF UniformLess(u[1], P.p) THEN [names |-> <<"F">>, rejection |-> FALSE]
    ELSE IF UniformLess(u[2], P.p) THEN [names |-> <<"C", "F">>, rejection |-> FALSE]
    ELSE IF UniformLess(u[3], P.r) THEN [names |-> <<"C", "W", "F">>, rejection |-> FALSE]
    ELSE [names |-> <<"C", "W">>, rejection |-> TRUE]
Plan(u, P) ==
    IF UniformLess(u[1], P.p) THEN [names |-> <<"F">>, rejection |-> FALSE]
    ELSE IF UniformLess(u[2], P.q) THEN [names |-> <<"C", "F">>, rejection |-> FALSE]
    ELSE IF UniformLess(u[3], P.r) THEN [names |-> <<"C", "W", "F">>, rejection |-> FALSE]
    ELSE [names |-> <<"C", "W">>, rejection |-> TRUE]

\* whether one of the exponential(1 / mu) calls of the plan raises
PlanRaises(pl, P) ==
    \E i \in 1..Len(pl.names) : ExponentialRaises(Rate(pl.names[i], P))

\* the applicant returned when the uniform draws select the plan pl, with one
\* exponential draw x[i] for each stage; id, arrived and plan are history
\* fields, not read by the program
process_application(pl, x, P, id, now) ==
    LET stages == [i \in 1..Len(pl.names) |->
                      <<pl.names[i], exponential(x[i], Rate(pl.names[i], P))>>]
    IN [stages |-> stages, rejection |-> pl.rejection, time_spent_total |-> 0,
        id |-> id, arrived |-> now, plan |-> stages]

----------------------------------------------------------------------------
(* The drain loop of main *)

EmptyServers == [n \in {"F", "C", "W"} |-> <<>>]

\* the remaining duration of the head-of-line applicant
HeadTime(S, name) == S[name][1].stages[1][2]

\* lines 49-56: the scan for the minimum, in the order F, C, W, with a strict <
RECURSIVE Scan(_, _, _)
Scan(S, i, cur) ==
    IF i > Len(Names) THEN cur
    ELSE LET name == Names[i]
         IN IF S[name] # <<>> /\ HeadTime(S, name) < cur.time_min
            THEN Scan(S, i + 1, [time_min_name |-> name, time_min |-> HeadTime(S, name)])
            ELSE Scan(S, i + 1, cur)

\* the scan with <= : the last of the heads that tie at the minimum is selected
RECURSIVE ScanLast(_, _, _)
ScanLast(S, i, cur) ==
    IF i > Len(Names) THEN cur
    ELSE LET name == Names[i]
         IN IF S[name] # <<>> /\ HeadTime(S, name) <= cur.time_min
            THEN ScanLast(S, i + 1, [time_min_name |-> name, time_min |-> HeadTime(S, name)])
            ELSE ScanLast(S, i + 1, cur)

time_min_nameLastOfTies(S, gap) ==
    IF Scan(S, 1, [time_min_name |-> "time_till_applicant", time_min |-> gap]).time_min_name
          = "time_till_applicant"
    THEN "time_till_applicant"
    ELSE ScanLast(S, 1, [time_min_name |-> "time_till_applicant", time_min |-> gap]).time_min_name
\* the scan that stops at the first station whose head is below the gap
RECURSIVE ScanFirst(_, _, _)
ScanFirst(S, i, gap) ==
    IF i > Len(Names) THEN "time_till_applicant"
    ELSE IF S[Names[i]] # <<>> /\ HeadTime(S, Names[i]) < gap
         THEN Names[i]
         ELSE ScanFirst(S, i + 1, gap)

time_min_nameFirstBusy(S, gap) == ScanFirst(S, 1, gap)

\* the scan that lets a head complete when its duration is the gap itself
time_min_nameAtGap(S, gap) ==
    Scan(S, 1, [time_min_name |-> "time_till_applicant", time_min |-> gap + 1]).time_min_name
time_min_nameTwoStations(S, gap) ==
    Scan([S EXCEPT !["W"] = <<>>], 1,
         [time_min_name |-> "time_till_applicant", time_min |-> gap]).time_min_name
time_min_name(S, gap) ==
    Scan(S, 1, [time_min_name |-> "time_till_applicant", time_min |-> gap]).time_min_name

\* lines 64-67: every applicant of a station accrues time_spent, the head is served
TickAllServed(queue, time_spent) ==
    [i \in 1..Len(queue) |->
        [queue[i] EXCEPT !.time_spent_total = @ + time_spent,
                         !.stages[1][2] = @ - time_spent]]
TickWaitingOnly(queue, time_spent) ==
    [i \in 1..Len(queue) |->
        IF i = 1
        THEN [queue[i] EXCEPT !.stages[1][2] = @ - time_spent]
        ELSE [queue[i] EXCEPT !.time_spent_total = @ + time_spent]]
Tick(queue, time_spent) ==
    [i \in 1..Len(queue) |->
        IF i = 1
        THEN [queue[i] EXCEPT !.time_spent_total = @ + time_spent,
                              !.stages[1][2] = @ - time_spent]
        ELSE [queue[i] EXCEPT !.time_spent_total = @ + time_spent]]

\* lines 68-73: the stage and the applicant popped off the completing station
Popped(S, name) == [S[name][1] EXCEPT !.stages = Tail(@)]

\* the forwarded applicant joins its next station with its total set back to 0
MoveStartsOver(S, name) ==
    LET applicant == Popped(S, name)
        rest == [S EXCEPT ![name] = Tail(@)]
    IN IF applicant.stages # <<>>
       THEN [rest EXCEPT ![applicant.stages[1][1]] =
                Append(@, [applicant EXCEPT !.time_spent_total = 0])]
       ELSE rest

\* the forwarded applicant goes to the front of its next station
MoveToFront(S, name) ==
    LET applicant == Popped(S, name)
        rest == [S EXCEPT ![name] = Tail(@)]
    IN IF applicant.stages # <<>>
       THEN [rest EXCEPT ![applicant.stages[1][1]] = <<applicant>> \o @]
       ELSE rest

\* lines 68-77: the stations after the completion at station name
Move(S, name) ==
    LET applicant == Popped(S, name)
        rest == [S EXCEPT ![name] = Tail(@)]
    IN IF applicant.stages # <<>>
       THEN [rest EXCEPT ![applicant.stages[1][1]] = Append(@, applicant)]
       ELSE rest

\* every sample goes to the bucket of the completed applications
RecordAllCompleted(T, applicant) ==
    IF applicant.stages # <<>> THEN T
    ELSE [T EXCEPT !.c = Append(@, applicant.time_spent_total)]

\* lines 78-82: the sample recorded, if the applicant has completed every stage
Record(T, applicant) ==
    IF applicant.stages # <<>> THEN T
    ELSE IF applicant.rejection
         THEN [T EXCEPT !.r = Append(@, applicant.time_spent_total)]
         ELSE [T EXCEPT !.c = Append(@, applicant.time_spent_total)]

----------------------------------------------------------------------------
(* History *)

t_slot == applicant_arrival_times[idx]

HeadsOf(S) ==
    [n \in {"F", "C", "W"} |->
        IF S[n] = <<>> THEN [id |-> 0, remaining |-> 0]
        ELSE [id |-> S[n][1].id, remaining |-> HeadTime(S, n)]]

LogEntry(applicant, name, now) ==
    [total |-> applicant.time_spent_total, rejection |-> applicant.rejection,
     id |-> applicant.id, arrived |-> applicant.arrived, plan |-> applicant.plan,
     station |-> name, clock |-> now]

----------------------------------------------------------------------------
(* Parameters *)

Draws == 1..MaxDraw

MainRates == [lam |-> LamMain, muf |-> MufMain, muc |-> MucMain, muw |-> MuwMain]

Params(K, p, q, r, T) ==
    [K |-> K, lam |-> MainRates.lam, muf |-> MainRates.muf, muc |-> MainRates.muc,
     muw |-> MainRates.muw, p |-> p, q |-> q, r |-> r, T |-> T]

InitState ==
    /\ pc = "main"
    /\ k = 0
    /\ Times = [c |-> <<>>, r |-> <<>>]
    /\ t_prev = 0
    /\ t_poisson = 0
    /\ applicant_arrival_times = <<>>
    /\ idx = 1
    /\ time_till_applicant = 0
    /\ Servers = EmptyServers
    /\ clock = 0
    /\ enqueued = 0
    /\ log = <<>>
    /\ snap = HeadsOf(EmptyServers)
    /\ waited = {}

Probs == {0, Half, One}

\* arguments with the three service rates m times the arrival rate: the
\* service durations and the interarrival times are multiples of one unit, so
\* that heads tie with each other and with the gap to the next arrival
ServiceRates(P, m) == [P EXCEPT !.muf = m * P.lam, !.muc = m * P.lam, !.muw = m * P.lam]

\* the valid arguments of the model.  A single replication has the long horizon:
\* with q = 1 and every p and r, and with p = q = r = 1/2, where every branch
\* of process_application is taken, with the rates of __main__, with service
\* as fast as the arrivals, and three times as fast (stages complete between
\* two arrivals).  Several replications have the short horizon, with p = 1/2
\* and q = r = 0 (Fingerprint only, or rejected).
ValidArguments ==
    {Params(K, p, One, r, Horizon) : K \in {0, 1}, p \in Probs, r \in Probs}
    \cup {Params(K, Half, Half, Half, Horizon) : K \in {0, 1}}
    \cup {ServiceRates(Params(1, Half, Half, Half, Horizon), m) : m \in {1, 3}}
    \cup {Params(K, Half, 0, 0, ShortHorizon) : K \in 0..MaxK}

Init ==
    /\ par \in ValidArguments
    /\ rng = [u |-> Draws, x |-> Draws]
    /\ InitState

----------------------------------------------------------------------------
(* main *)

\* line 33, range(K) exhausted, and line 89
Return ==
    /\ pc = "main"
    /\ k >= par.K
    /\ pc' = "done"
    /\ UNCHANGED <<par, rng, k, Times, t_prev, t_poisson, applicant_arrival_times, idx,
                   time_till_applicant, Servers, clock, enqueued, log, snap, waited>>

\* lines 33-35: the next replication starts and calls poisson_process
StartReplication ==
    /\ pc = "main"
    /\ k < par.K
    /\ t_prev' = 0
    /\ t_poisson' = 0
    /\ applicant_arrival_times' = <<>>
    /\ clock' = 0
    /\ enqueued' = 0
    /\ log' = <<>>
    /\ waited' = {}
    /\ pc' = "poisson"
    /\ UNCHANGED <<par, rng, k, Times, idx, time_till_applicant, Servers, snap>>

\* the iteration without the test of line 109: every instant is appended
poisson_stepAppendAlways ==
    /\ pc = "poisson"
    /\ t_poisson < par.T
    /\ par.lam < 0 => Len(applicant_arrival_times) < MaxArrivals
    /\ \E n \in rng.u :
          LET t == Plus(t_poisson, InterArrival(n, par.lam))
          IN /\ t_poisson' = t
             /\ applicant_arrival_times' = Append(applicant_arrival_times, t)
    /\ UNCHANGED <<par, rng, pc, k, Times, t_prev, idx, time_till_applicant, Servers,
                   clock, enqueued, log, snap, waited>>

\* lines 105-110: one iteration of the while loop of poisson_process
poisson_step ==
    /\ pc = "poisson"
    /\ t_poisson < par.T
    /\ par.lam < 0 => Len(applicant_arrival_times) < MaxArrivals
    /\ \E n \in rng.u :
          LET t == Plus(t_poisson, InterArrival(n, par.lam))
          IN /\ t_poisson' = t
             /\ applicant_arrival_times' =
                   IF t < par.T THEN Append(applicant_arrival_times, t)
                   ELSE applicant_arrival_times
    /\ UNCHANGED <<par, rng, pc, k, Times, t_prev, idx, time_till_applicant, Servers,
                   clock, enqueued, log, snap, waited>>

\* the return of poisson_process without line 36: no sentinel is appended
poisson_returnNoSentinel ==
    /\ pc = "poisson"
    /\ ~(t_poisson < par.T)
    /\ Servers' = EmptyServers
    /\ idx' = 1
    /\ pc' = "slot"
    /\ UNCHANGED <<par, rng, k, Times, t_prev, t_poisson, applicant_arrival_times,
                   time_till_applicant, clock, enqueued, log, snap, waited>>

\* the return of poisson_process without lines 37-41: the queues are kept
poisson_returnKeepServers ==
    /\ pc = "poisson"
    /\ ~(t_poisson < par.T)
    /\ applicant_arrival_times' = Append(applicant_arrival_times, Inf)
    /\ idx' = 1
    /\ pc' = "slot"
    /\ UNCHANGED <<par, rng, k, Times, t_prev, t_poisson, time_till_applicant, Servers,
                   clock, enqueued, log, snap, waited>>

\* lines 105, 112 and 36-41: poisson_process returns, the sentinel is appended
poisson_return ==
    /\ pc = "poisson"
    /\ ~(t_poisson < par.T)
    /\ applicant_arrival_times' = Append(applicant_arrival_times, Inf)
    /\ Servers' = EmptyServers
    /\ idx' = 1
    /\ pc' = "slot"
    /\ UNCHANGED <<par, rng, k, Times, t_prev, t_poisson, time_till_applicant,
                   clock, enqueued, log, snap, waited>>

\* lines 42-44: the next arrival slot starts
SlotStart ==
    /\ pc = "slot"
    /\ idx <= Len(applicant_arrival_times)
    /\ time_till_applicant' = Minus(t_slot, t_prev)
    /\ snap' = HeadsOf(Servers)
    /\ pc' = "drain"
    /\ UNCHANGED <<par, rng, k, Times, t_prev, t_poisson, applicant_arrival_times, idx,
                   Servers, clock, enqueued, log, waited>>

\* lines 48-59: no head-of-line duration is below time_till_applicant
DrainBreak ==
    /\ pc = "drain"
    /\ time_min_name(Servers, time_till_applicant) = "time_till_applicant"
    /\ pc' = "admit"
    /\ UNCHANGED <<par, rng, k, Times, t_prev, t_poisson, applicant_arrival_times, idx,
                   time_till_applicant, Servers, clock, enqueued, log, snap, waited>>

\* lines 48-57 and 60-82: one completion
DrainStep ==
    /\ pc = "drain"
    /\ time_min_name(Servers, time_till_applicant) # "time_till_applicant"
    /\ LET name == time_min_name(Servers, time_till_applicant)
           time_spent == HeadTime(Servers, name)
           ticked == [n \in {"F", "C", "W"} |-> Tick(Servers[n], time_spent)]
           applicant == Popped(ticked, name)
       IN /\ time_till_applicant' = Minus(time_till_applicant, time_spent)
          /\ Servers' = Move(ticked, name)
          /\ Times' = Record(Times, applicant)
          /\ clock' = clock + time_spent
          /\ log' = IF applicant.stages = <<>>
                    THEN Append(log, LogEntry(applicant, name, clock + time_spent))
                    ELSE log
          /\ waited' = IF applicant.stages # <<>> /\ ticked[applicant.stages[1][1]] # <<>>
                       THEN waited \cup {applicant.id}
                       ELSE waited
    /\ UNCHANGED <<par, rng, pc, k, t_prev, t_poisson, applicant_arrival_times, idx,
                   enqueued, snap>>

\* the plans that the uniform draws of the random source can select
Plans(P, source) == {Plan(u, P) : u \in [1..3 -> source.u]}

\* line 84: what process_application can do with the draws of the random source
\* (three uniform draws at most, and one exponential draw for each stage):
\* raise, or return an applicant
Applications(P, source, id, now) ==
    UNION {IF PlanRaises(pl, P)
           THEN {[raised |-> TRUE, applicant |-> <<>>]}
           ELSE {[raised |-> FALSE, applicant |-> process_application(pl, x, P, id, now)] :
                    x \in [1..Len(pl.names) -> source.x]} :
              pl \in Plans(P, source)}

\* lines 84-87: an applicant is built and enqueued, in every slot
Admit ==
    /\ pc = "admit"
    /\ \E call \in Applications(par, rng, enqueued + 1, t_slot) :
          IF call.raised
          THEN /\ pc' = "raised"
               /\ UNCHANGED <<Servers, enqueued, t_prev, idx, clock, waited>>
          ELSE LET applicant == call.applicant
               IN /\ Servers' = [Servers EXCEPT ![applicant.stages[1][1]] = Append(@, applicant)]
                  /\ enqueued' = enqueued + 1
                  /\ t_prev' = t_slot
                  /\ idx' = idx + 1
                  /\ clock' = IF t_slot = Inf THEN clock ELSE t_slot
                  /\ waited' = IF Servers[applicant.stages[1][1]] # <<>>
                               THEN waited \cup {applicant.id}
                               ELSE waited
                  /\ pc' = "slot"
    /\ UNCHANGED <<par, rng, k, Times, t_poisson, applicant_arrival_times,
                   time_till_applicant, log, snap>>

\* line 42, the arrival times exhausted: the replication ends
ReplicationEnd ==
    /\ pc = "slot"
    /\ idx > Len(applicant_arrival_times)
    /\ k' = k + 1
    /\ pc' = "main"
    /\ UNCHANGED <<par, rng, Times, t_prev, t_poisson, applicant_arrival_times, idx,
                   time_till_applicant, Servers, clock, enqueued, log, snap, waited>>

Next ==
    \/ Return
    \/ StartReplication
    \/ poisson_step
    \/ poisson_return
    \/ SlotStart
    \/ DrainBreak
    \/ DrainStep
    \/ Admit
    \/ ReplicationEnd

Spec == Init /\ [][Next]_vars

----------------------------------------------------------------------------
(* Other specifications *)

\* the arguments of the liveness check: every plan of process_application
\* occurs, with two real arrivals or with several replications
FairArguments ==
    {Params(K, Half, 0, 0, Horizon) : K \in {0, 1}}
    \cup {Params(1, Half, One, 0, Horizon), Params(1, Half, Half, Half, ShortHorizon)}
    \cup {Params(K, One, One, One, ShortHorizon) : K \in 0..MaxK}

InitFair ==
    /\ par \in FairArguments
    /\ rng = [u |-> Draws, x |-> Draws]
    /\ InitState

\* main is sequential: whenever a step is possible, it is taken
FairSpec == InitFair /\ [][Next]_vars /\ WF_vars(Next)

\* arguments that violate the documented ranges, one at a time
BaseArguments == Params(1, Half, Half, Half, Horizon)
InvalidArguments ==
    {[BaseArguments EXCEPT !.lam = 0 - LamMain], [BaseArguments EXCEPT !.lam = 0],
     [BaseArguments EXCEPT !.muf = 0], [BaseArguments EXCEPT !.muc = 0 - MucMain],
     [BaseArguments EXCEPT !.muw = 0], [BaseArguments EXCEPT !.T = 0],
     [BaseArguments EXCEPT !.p = One + 1], [BaseArguments EXCEPT !.q = 0 - 1],
     [BaseArguments EXCEPT !.r = One + 1], [BaseArguments EXCEPT !.K = 0 - 1]}

InitAnyArguments ==
    /\ par \in {BaseArguments} \cup InvalidArguments
    /\ rng = [u |-> Draws, x |-> Draws]
    /\ InitState

SpecAnyArguments == InitAnyArguments /\ [][Next]_vars

\* K=1, lam=8, muf=6, muc=5, muw=4, p=1.0, any q and r, T=1 and a random source
\* that returns 0.5 = 2^-1 for every uniform draw and one constant for every
\* exponential draw
InitScenario ==
    /\ par \in {Params(1, One, q, r, HourUnits) : q \in Probs, r \in Probs}
    /\ rng \in {[u |-> {1}, x |-> {x}] : x \in Draws}
    /\ InitState

SpecScenario == InitScenario /\ [][Next]_vars

----------------------------------------------------------------------------
(* Properties *)

\* the ranges of the arguments that the interface states
ValidParams(P) ==
    /\ P.lam > 0 /\ P.muf > 0 /\ P.muc > 0 /\ P.muw > 0 /\ P.T > 0
    /\ P.p \in 0..ProbDen /\ P.q \in 0..ProbDen /\ P.r \in 0..ProbDen
    /\ P.K >= 0

ReplicationEnded == pc = "slot" /\ idx > Len(applicant_arrival_times)

RealArrivals == SelectSeq(applicant_arrival_times, LAMBDA t : t # Inf)

RECURSIVE SumDurations(_)
SumDurations(stages) ==
    IF stages = <<>> THEN 0 ELSE stages[1][2] + SumDurations(Tail(stages))

Residents == {Servers[n][i] : n \in {"F"}, i \in 1..Len(Servers["F"])}
             \cup {Servers[n][i] : n \in {"C"}, i \in 1..Len(Servers["C"])}
             \cup {Servers[n][i] : n \in {"W"}, i \in 1..Len(Servers["W"])}

\* C1: at the end of every replication, the samples recorded in the replication
\* are as many as the applicants enqueued in it.
C1_EveryEnqueuedRecorded == ReplicationEnded => Len(log) = enqueued

\* C2: at the end of every replication the three queues are empty, the clock is
\* at least the last real arrival time, and no applicant was built in the
\* sentinel slot.
C2_QueuesEmptyAtEnd ==
    ReplicationEnded =>
        /\ Servers = EmptyServers
        /\ \A i \in 1..Len(RealArrivals) : clock >= RealArrivals[i]
        /\ enqueued = Len(RealArrivals)

\* C3: every recorded sojourn time is the clock at the completion of the last
\* stage minus the arrival instant.
C3_SojournIsElapsedTime ==
    \A i \in 1..Len(log) : log[i].total = log[i].clock - log[i].arrived

\* C4: every recorded sojourn time is >= 0 and >= the sum of the service
\* durations drawn for the applicant's stages.
C4_SojournAtLeastService ==
    \A i \in 1..Len(log) :
        log[i].total >= 0 /\ log[i].total >= SumDurations(log[i].plan)

\* an applicant of several stages that waited is recorded
C4_Witness ==
    \E i \in 1..Len(log) :
        Len(log[i].plan) >= 2 /\ log[i].total > SumDurations(log[i].plan)

\* C5: every replication terminates: main returns, every drain loop entered
\* exits, and the drain loop of the sentinel slot leaves no applicant in a
\* queue.
C5_Terminates ==
    /\ <>(pc = "done")
    /\ (pc = "drain") ~> (pc = "admit")
    /\ [](pc = "admit" /\ t_slot = Inf => Servers = EmptyServers)

\* main has returned after a replication that recorded two samples, one of
\* them at the Interview station
C5_Witness ==
    pc = "done" /\ Len(log) = 2 /\ \E i \in 1..Len(log) : log[i].station = "W"

\* C6: with q = 1 no sample is rejected and no applicant has an Interview stage
\* or the rejected disposition.
C6_NoRejectionWhenQOne ==
    par.q = One =>
        /\ Times.r = <<>>
        /\ \A a \in Residents :
              ~a.rejection /\ \A j \in 1..Len(a.plan) : a.plan[j][1] # "W"

\* with q = 1, main has returned and an applicant that went through Case Review
\* is recorded as completed
C6_Witness ==
    /\ par.q = One /\ par.r = 0 /\ pc = "done" /\ Times.c # <<>>
    /\ \E i \in 1..Len(log) : log[i].plan[1][1] = "C"

\* C7: with an invalid argument main fails before any replication starts: it
\* stays at its start or raises InvalidParameter, and nothing is generated.
C7_InvalidArgumentsFailFast ==
    ~ValidParams(par) =>
        /\ pc \in {"main", "InvalidParameter"}
        /\ applicant_arrival_times = <<>>
        /\ Times = [c |-> <<>>, r |-> <<>>]

\* C8 as stated: in the scenario exactly one applicant arrives, and it is
\* recorded in Completed with its single Fingerprint service draw.
C8_OneArrival ==
    pc = "done" =>
        /\ Len(RealArrivals) = 1
        /\ Times.r = <<>>
        /\ Len(Times.c) = 1
        /\ Len(log) >= 1
        /\ log[1].plan = <<<<"F", Times.c[1]>>>>

\* C8 as amended: in the scenario eleven applicants arrive, at the multiples of
\* the constant interarrival time below T; each is routed directly to
\* Fingerprint and recorded in Completed, the first one with its single
\* Fingerprint service draw and none with less than its own draw.
C8_ElevenArrivals ==
    pc = "done" =>
        /\ Len(RealArrivals) = 11
        /\ \A i \in 1..Len(RealArrivals) : RealArrivals[i] = i * InterArrival(1, LamMain)
        /\ Times.r = <<>>
        /\ Len(Times.c) = 11
        /\ Len(log) = 11
        /\ \A i \in 1..Len(log) :
              /\ Len(log[i].plan) = 1
              /\ log[i].plan[1][1] = "F"
              /\ log[i].id = i
              /\ Times.c[i] = log[i].total
              /\ log[i].total >= log[i].plan[1][2]
        /\ Times.c[1] = log[1].plan[1][2]

\* the scenario has run to the end and recorded its samples
C8_Witness == pc = "done" /\ par.p = One /\ rng.u = {1} /\ Len(Times.c) = 11

\* C10: over a slot in which the clock advances by the full gap, a station
\* whose head-of-line applicant is the same at both ends of the slot has that
\* applicant's remaining duration decreased by the gap.
C10_WorkConserving ==
    (pc = "admit" /\ t_slot # Inf) =>
        \A n \in {"F", "C", "W"} :
            (snap[n].id # 0 /\ Servers[n] # <<>> /\ Servers[n][1].id = snap[n].id)
                => HeadTime(Servers, n) = snap[n].remaining - Minus(t_slot, t_prev)

----------------------------------------------------------------------------
(* The drain step, seen from outside *)

\* the applicants of the queues S
ResidentsOf(S) == {S["F"][i] : i \in 1..Len(S["F"])}
                  \cup {S["C"][i] : i \in 1..Len(S["C"])}
                  \cup {S["W"][i] : i \in 1..Len(S["W"])}

\* the duration that was drawn for the first stage that the applicant has left
OriginalDuration(a) == a.plan[Len(a.plan) - Len(a.stages) + 1][2]

\* a step of the drain loop that completes a stage
IsDrainStep == pc = "drain" /\ Servers' # Servers

\* the time that the step of the drain loop lets pass
delta == clock' - clock

\* what the step leaves of every applicant: in a queue, or in the sample recorded
AfterStep ==
    {[id |-> a.id, total |-> a.time_spent_total, stages |-> a.stages] :
        a \in ResidentsOf(Servers')}
    \cup (IF log' # log
          THEN {[id |-> log'[Len(log')].id, total |-> log'[Len(log')].total,
                 stages |-> <<>>]}
          ELSE {})

\* C11: in a drain step every resident applicant accrues delta exactly once,
\* the moved one included; the head of every station has its remaining
\* duration decreased by delta (the completed stage is popped); every other
\* applicant keeps its stages, and its first stage has the duration drawn.
C11_DrainStepFrame ==
    [][IsDrainStep =>
        /\ Cardinality(AfterStep) = Cardinality(Residents)
        /\ \A n \in {"F", "C", "W"} : \A i \in 1..Len(Servers[n]) :
              LET a == Servers[n][i]
              IN /\ \E b \in AfterStep : b.id = a.id
                 /\ \A b \in AfterStep : b.id = a.id =>
                       /\ b.total = a.time_spent_total + delta
                       /\ IF i = 1
                          THEN \/ /\ b.stages = [a.stages EXCEPT ![1][2] = @ - delta]
                                  /\ Servers'[n] # <<>> /\ Servers'[n][1].id = a.id
                               \/ /\ a.stages[1][2] = delta
                                  /\ b.stages = Tail(a.stages)
                          ELSE /\ b.stages = a.stages
                               /\ a.stages[1][2] = OriginalDuration(a)
                               /\ \E j \in 1..Len(Servers'[n]) : Servers'[n][j].id = a.id]_vars

\* after drain steps, an applicant waits behind a head that was served in
\* part: the waiting one has accrued time and has its first stage untouched
C11_Witness ==
    /\ pc = "drain"
    /\ \E n \in {"F", "C", "W"} :
          /\ Len(Servers[n]) >= 2
          /\ Servers[n][2].time_spent_total > 0
          /\ Servers[n][1].stages[1][2] < OriginalDuration(Servers[n][1])
          /\ Servers[n][1].stages[1][2] > 0

\* the stations with an applicant
Busy == {n \in {"F", "C", "W"} : Servers[n] # <<>>}

\* the least head-of-line remaining duration of the busy stations
MinHead == CHOOSE m \in {HeadTime(Servers, n) : n \in Busy} :
              \A n \in Busy : m <= HeadTime(Servers, n)

\* the position of a station in the order of the scan
Position(n) == CHOOSE i \in 1..Len(Names) : Names[i] = n

\* the stations whose head-of-line applicant leaves in the step
Completing ==
    {n \in Busy : Servers'[n] = <<>> \/ Servers'[n][1].id # Servers[n][1].id}

\* C12: in a drain step exactly one station completes; its head has the
\* minimum remaining duration of the busy stations, delta is that minimum, and
\* no station before it in the order F, C, W ties at the minimum.
C12_MinimumFirstInOrder ==
    [][IsDrainStep =>
        /\ Cardinality(Completing) = 1
        /\ \A n \in Completing :
              /\ HeadTime(Servers, n) = MinHead
              /\ delta = MinHead
              /\ \A o \in Busy :
                    HeadTime(Servers, o) = MinHead => Position(n) <= Position(o)]_vars

\* a tie was resolved: the head of a later station is left with remaining
\* duration zero by the completion at an earlier station
C12_Witness ==
    /\ pc = "drain"
    /\ log # <<>>
    /\ log[Len(log)].station = "F"
    /\ \E n \in {"C", "W"} :
          /\ Servers[n] # <<>>
          /\ HeadTime(Servers, n) = 0
          /\ OriginalDuration(Servers[n][1]) > 0

\* no head-of-line duration is below the remaining gap
GapIsLeast == \A n \in Busy : HeadTime(Servers, n) >= time_till_applicant

\* C13: in the drain phase the remaining gap is positive; the phase ends, with
\* the queues untouched, exactly when no head is below the remaining gap, and
\* otherwise the head that completes is strictly below it; the admission that
\* follows leaves every head, also one whose duration equals the gap, in place.
C13_StrictlyBelowGap ==
    [][/\ pc = "drain" =>
            /\ time_till_applicant > 0
            /\ time_till_applicant' > 0
            /\ IF GapIsLeast
               THEN pc' = "admit" /\ Servers' = Servers
               ELSE /\ pc' = "drain"
                    /\ IsDrainStep
                    /\ \A n \in Completing : HeadTime(Servers, n) < time_till_applicant
       /\ pc = "admit" =>
            /\ time_till_applicant > 0
            /\ GapIsLeast
            /\ \A n \in Busy : Servers'[n] # <<>> /\ Servers'[n][1] = Servers[n][1]]_vars

\* an applicant was admitted at a real arrival after a drain phase that
\* completed a stage and stopped at a head whose duration equals the gap left
C13_Witness ==
    /\ pc = "slot"
    /\ idx > 1
    /\ t_prev # Inf
    /\ \E n \in {"F", "C", "W"} :
          /\ Servers[n] # <<>>
          /\ HeadTime(Servers, n) = time_till_applicant
          /\ Servers[n][1].id < enqueued
          /\ Len(Servers[n][1].stages) < Len(Servers[n][1].plan)

\* the applicants of station n, in the order of the queue
Ids(S, n) == [i \in 1..Len(S[n]) |-> S[n][i].id]

\* C14: within a replication a step leaves the queue of a station as it is,
\* or appends one applicant that was not in it at the tail, or removes the
\* head; the head is removed only by the drain step that completes its stage.
C14_FIFO ==
    [][~(pc = "poisson" /\ pc' = "slot") =>
        \A n \in {"F", "C", "W"} :
            LET old == Ids(Servers, n)
                new == Ids(Servers', n)
            IN \/ new = old
               \/ /\ Len(new) = Len(old) + 1
                  /\ SubSeq(new, 1, Len(old)) = old
                  /\ \A i \in 1..Len(old) : old[i] # new[Len(new)]
               \/ /\ old # <<>>
                  /\ new = Tail(old)
                  /\ IsDrainStep
                  /\ Completing = {n}
                  /\ HeadTime(Servers, n) = delta
                  /\ \E b \in AfterStep :
                        b.id = old[1] /\ b.stages = Tail(Servers[n][1].stages)]_vars

\* an applicant forwarded from another station stands behind an applicant that
\* arrived after it and joined this station before it
C14_Witness ==
    \E n \in {"F", "C", "W"} :
        /\ Len(Servers[n]) >= 2
        /\ Len(Servers[n][2].stages) < Len(Servers[n][2].plan)
        /\ Servers[n][2].id < Servers[n][1].id

\* the stations of a sequence of stages
StationsOf(stages) == [i \in 1..Len(stages) |-> stages[i][1]]

FourPlans == {<<"F">>, <<"C", "F">>, <<"C", "W", "F">>, <<"C", "W">>}

\* the plan and the disposition of an applicant agree
PlanAndDisposition(names, rejection) ==
    /\ names \in FourPlans
    /\ rejection <=> names = <<"C", "W">>

\* C15: every applicant has one of the four station sequences and is rejected
\* if and only if its sequence is C, W, in a queue (where the stages left are
\* the end of its sequence) and when recorded; a completed applicant is
\* recorded at Fingerprint, a rejected one at Interview, with no Fingerprint
\* stage, and each sample goes to the bucket of the applicant's disposition.
C15_FourPlans ==
    /\ [](\A a \in Residents :
            /\ PlanAndDisposition(StationsOf(a.plan), a.rejection)
            /\ a.stages # <<>>
            /\ Len(a.stages) <= Len(a.plan)
            /\ StationsOf(a.stages)
                  = SubSeq(StationsOf(a.plan), Len(a.plan) - Len(a.stages) + 1, Len(a.plan)))
    /\ [](\A i \in 1..Len(log) :
            /\ PlanAndDisposition(StationsOf(log[i].plan), log[i].rejection)
            /\ log[i].station = log[i].plan[Len(log[i].plan)][1]
            /\ ~log[i].rejection => log[i].station = "F"
            /\ log[i].rejection =>
                  /\ log[i].station = "W"
                  /\ \A j \in 1..Len(log[i].plan) : log[i].plan[j][1] # "F")
    /\ [][Len(log') > Len(log) =>
            LET e == log'[Len(log')]
            IN IF e.rejection
               THEN Times'.r = Append(Times.r, e.total) /\ Times'.c = Times.c
               ELSE Times'.c = Append(Times.c, e.total) /\ Times'.r = Times.r]_vars

\* a replication has recorded a rejected applicant and an applicant completed
\* after Case Review and Interview
C15_Witness ==
    /\ Times.r # <<>> /\ Times.c # <<>>
    /\ \E i \in 1..Len(log) : log[i].rejection
    /\ \E i \in 1..Len(log) : StationsOf(log[i].plan) = <<"C", "W", "F">>

\* the sequence increases strictly and every instant is in [0, T)
IncreasingBelow(times, T) ==
    /\ \A i \in 1..Len(times) : 0 <= times[i] /\ times[i] < T
    /\ \A i \in 1..(Len(times) - 1) : times[i] < times[i + 1]

\* C16: while poisson_process runs and after it has returned, the instants
\* collected increase strictly and are in [0, T), and none exceeds the
\* cumulative time; the loop samples while the cumulative time is below T,
\* appends the new cumulative time only if it is below T, and returns at the
\* first cumulative time that is not below T; the loop always returns.
C16_PoissonProcess ==
    /\ [](pc \in {"poisson", "slot", "drain", "admit"} =>
            /\ IncreasingBelow(RealArrivals, par.T)
            /\ \A i \in 1..Len(RealArrivals) : RealArrivals[i] <= t_poisson)
    /\ [][pc = "poisson" =>
            IF t_poisson < par.T
            THEN /\ pc' = "poisson"
                 /\ t_poisson' > t_poisson
                 /\ applicant_arrival_times' =
                       IF t_poisson' < par.T
                       THEN Append(applicant_arrival_times, t_poisson')
                       ELSE applicant_arrival_times
            ELSE /\ pc' = "slot"
                 /\ RealArrivals' = applicant_arrival_times]_vars
    /\ (pc = "poisson") ~> (pc = "slot")

\* poisson_process has returned two instants, and stopped at a cumulative time
\* that is not below T
C16_Witness ==
    /\ pc = "slot" /\ idx = 1
    /\ Len(RealArrivals) = 2
    /\ t_poisson >= par.T /\ t_poisson # Inf

\* the samples of the replication that went to a bucket, in the order recorded
RECURSIVE SamplesOf(_, _)
SamplesOf(entries, rejection) ==
    IF entries = <<>> THEN <<>>
    ELSE IF entries[1].rejection = rejection
         THEN <<entries[1].total>> \o SamplesOf(Tail(entries), rejection)
         ELSE SamplesOf(Tail(entries), rejection)

\* the bucket ends with the samples
EndsWith(bucket, samples) ==
    /\ Len(samples) <= Len(bucket)
    /\ SubSeq(bucket, Len(bucket) - Len(samples) + 1, Len(bucket)) = samples

\* C17: the first slot of every replication starts at time 0, with empty
\* queues and nothing recorded or enqueued in the replication; no step
\* changes or removes a sample of a bucket; each bucket ends with the samples
\* that the current replication has recorded, in their order; with K = 0
\* both buckets are empty at the return.
C17_ReplicationsIsolated ==
    /\ [](pc = "slot" /\ idx = 1 =>
            /\ Servers = EmptyServers
            /\ t_prev = 0 /\ clock = 0
            /\ enqueued = 0 /\ log = <<>> /\ waited = {})
    /\ [][/\ Len(Times'.c) >= Len(Times.c)
          /\ SubSeq(Times'.c, 1, Len(Times.c)) = Times.c
          /\ Len(Times'.r) >= Len(Times.r)
          /\ SubSeq(Times'.r, 1, Len(Times.r)) = Times.r]_vars
    /\ [](/\ EndsWith(Times.c, SamplesOf(log, FALSE))
          /\ EndsWith(Times.r, SamplesOf(log, TRUE)))
    /\ [](pc = "done" /\ par.K = 0 => Times = [c |-> <<>>, r |-> <<>>])

\* the second replication has recorded a sample, after the sample of the first
C17_Witness ==
    /\ k = 1 /\ pc = "drain"
    /\ Len(log) = 1
    /\ Len(Times.c) + Len(Times.r) = 2

\* C18: at the end of a replication the samples recorded in it are as many as
\* the real arrival instants, and every real arrival has exactly one sample,
\* of the applicant admitted at that instant; the applicant of the sentinel
\* slot is the only one left in the queues, and no sample is ever recorded
\* for an applicant of a sentinel slot.
C18_RealArrivalsRecordedOnce ==
    /\ ReplicationEnded =>
          /\ Len(log) = Len(RealArrivals)
          /\ \A i \in 1..Len(RealArrivals) :
                /\ Cardinality({j \in 1..Len(log) : log[j].id = i}) = 1
                /\ \A j \in 1..Len(log) : log[j].id = i => log[j].arrived = RealArrivals[i]
          /\ \A a \in Residents : a.arrived = Inf /\ a.id = Len(RealArrivals) + 1
          /\ Cardinality(Residents) = 1
    /\ \A j \in 1..Len(log) : log[j].arrived # Inf

\* a replication with two real arrivals has ended: both are recorded, and the
\* applicant of the sentinel slot is in a queue
C18_Witness ==
    /\ ReplicationEnded
    /\ Len(RealArrivals) = 2
    /\ Len(log) = 2
    /\ \E a \in Residents : a.arrived = Inf

\* C19: the remaining duration of the first stage of every applicant in a
\* queue is at least 0 and at most the duration drawn for the stage, and the
\* time that a drain step lets pass is at least 0 and at most the remaining
\* duration of every head.
C19_RemainingInRange ==
    /\ [](\A a \in Residents :
            /\ a.stages[1][2] >= 0
            /\ a.stages[1][2] <= OriginalDuration(a))
    /\ [][IsDrainStep =>
            /\ delta >= 0
            /\ \A n \in Busy : delta <= HeadTime(Servers, n)
            /\ \A a \in ResidentsOf(Servers') : a.stages[1][2] >= 0]_vars

\* after a recorded completion, an applicant alone at its station has a part
\* of its stage left
C19_Witness ==
    /\ log # <<>>
    /\ \E n \in {"F", "C", "W"} :
          /\ Len(Servers[n]) = 1
          /\ HeadTime(Servers, n) > 0
          /\ HeadTime(Servers, n) < OriginalDuration(Servers[n][1])

\* C20: an applicant that joined every station of its sequence at the head
\* has accrued, while in a queue, the durations drawn for its stages minus
\* what is left of them, and is recorded with the sum of the durations drawn.
C20_NeverWaitedExactSum ==
    /\ \A a \in Residents :
          a.id \notin waited =>
              a.time_spent_total = SumDurations(a.plan) - SumDurations(a.stages)
    /\ \A i \in 1..Len(log) :
          log[i].id \notin waited => log[i].total = SumDurations(log[i].plan)

\* an applicant of several stages that never waited is recorded after an
\* applicant that arrived later, recorded at another station
C20_Witness ==
    \E i \in 1..Len(log) : \E j \in 1..Len(log) :
        /\ log[i].id \notin waited
        /\ Len(log[i].plan) >= 2
        /\ j < i
        /\ log[j].arrived > log[i].arrived
        /\ log[j].station # log[i].station

====
